---- MODULE Spec2Model ----
(***************************************************************************)
(* Cache management of BeamerPresenter's control screen                   *)
(* (src/src/screens/controlscreen.cpp): the cache region bookkeeping,      *)
(* the eviction loop, the dispatch of render jobs to the cache threads of  *)
(* the cache maps, and the completion handling.                            *)
(*                                                                         *)
(* All handlers run on the GUI thread, one at a time; a cache thread       *)
(* delivers its result through a queued signal, so every handler is one    *)
(* atomic action.                                                          *)
(***************************************************************************)
EXTENDS Integers, FiniteSets, Sequences, TLC

(***************************************************************************)
(* Bounds of the model.                                                    *)
(***************************************************************************)
\* Number of pages of the document in the general specification.
NumPages == 3
\* Size in bytes of a compressed page image of the presentation cache map.
PresBlob == 2
\* Size in bytes of a compressed page image of every other cache map.
SmallBlob == 1
\* A limited byte budget used by the configuration.
SomeBytes == 5
\* A limited page budget used by the configuration.
SomeNumber == 2
\* Number of events of the user and the window system in one behaviour.
MaxEvents == 1
\* Number of navigation events in a behaviour with navigation only and no
\* failed render job.
MaxNavigations == 2
\* Number of render jobs that fail in one behaviour.
MaxFailures == 1

\* "approximately -infinity": cacheSize when the cache size is unlimited.
\* The source uses -8589934591; the model scales it to the model's sizes.
UnlimitedCacheSize == -1000

\* Marks an idle cache thread.
NoPage == -1

\* The cache maps known to ControlScreen, and the ones that always exist.
AllStores == {"pres", "notes", "preview", "previewX", "draw"}
BaseStores == {"pres", "notes", "preview"}

VARIABLES
    numberOfPages,       \* ControlScreen::numberOfPages
    currentPageNumber,   \* ControlScreen::currentPageNumber
    presPage,            \* presentationScreen->getPageNumber()
    first_cached, last_cached, first_delete, last_delete,
    maxCacheSize, maxCacheNumber,
    cacheSize,           \* ControlScreen::cacheSize (tracked bytes)
    cacheThreadsRunning, \* ControlScreen::cacheThreadsRunning
    timerActive,         \* cacheTimer->isActive()
    stores,              \* the cache maps that exist (not nullptr)
    cache,               \* cache[s]: the pages held by cache map s
    rendering,           \* rendering[s]: page the cache thread of s renders
    stale,               \* cache maps cleared while their thread was rendering
    hung,                \* the GUI thread is stuck in a loop that never ends
    events,              \* kinds of the events of the user and the window system so far
    failures,            \* failed render jobs so far
    ev,                  \* history: the handler that ran last and what it did
    renderer,            \* the renderer of the cache maps: poppler or a program
    label,               \* a page label: its cache, its size and oldSize
    call                 \* history: the last call on the page label

vars == <<numberOfPages, currentPageNumber, presPage, first_cached, last_cached,
          first_delete, last_delete, maxCacheSize, maxCacheNumber, cacheSize,
          cacheThreadsRunning, timerActive, stores, cache, rendering, stale,
          hung, events, failures, ev, renderer, label, call>>

\* No page label is observed, no call on it has been made.
NoLabel == [kind |-> "none"]
NoCall == [op |-> "none"]

(***************************************************************************)
(* Helpers.                                                                *)
(***************************************************************************)
\* Size of the image the renderer produces for page p in cache map s.
BlobBytes(s, p) == IF s = "pres" THEN PresBlob ELSE SmallBlob

RECURSIVE SumBytes(_, _)
SumBytes(s, S) ==
    IF S = {} THEN 0
    ELSE LET p == CHOOSE x \in S : TRUE
         IN  BlobBytes(s, p) + SumBytes(s, S \ {p})

\* CacheMap::getSizeBytes
GetSizeBytes(c, s) == SumBytes(s, c[s])

\* CacheMap::length
Length(c, s) == Cardinality(c[s])

RECURSIVE SumStores(_, _)
SumStores(c, S) ==
    IF S = {} THEN 0
    ELSE LET s == CHOOSE x \in S : TRUE
         IN  GetSizeBytes(c, s) + SumStores(c, S \ {s})

\* Bytes really held by all cache maps of the group.
TotalBytes(c) == SumStores(c, AllStores)

\* CacheMap::clearCache on the cache maps in S.
ClearCache(c, S) == [s \in AllStores |-> IF s \in S THEN {} ELSE c[s]]

\* The test "all slides are cached" of updateCache and updateCacheStep.
AllCached(c) == \A s \in stores : Length(c, s) = numberOfPages

\* History of the handler that ran last: op names it, page is the page it
\* was given or chose, store and ok describe a finished render job, started
\* are the cache maps whose thread it started, freed the <<cache map, page>>
\* pairs it deleted, victims the pages it handed to freeCachePage, busy the
\* cache threads that were rendering when it began, outcome the branch taken.
Event(op, page, store, ok, started, freed, victims, busy, outcome) ==
    [op |-> op, page |-> page, store |-> store, ok |-> ok, started |-> started,
     freed |-> freed, victims |-> victims, busy |-> busy, outcome |-> outcome]

NoEvent == Event("init", NoPage, "none", FALSE, {}, {}, {}, {}, "none")

\* The cache threads that are rendering.
Busy == {s \in AllStores : rendering[s] # NoPage}

(***************************************************************************)
(* ControlScreen::renderPage: the new value of currentPageNumber.          *)
(***************************************************************************)
\* Mutant: the requested page number is taken as it is.
RenderPageRaw(pageNumber) == pageNumber

RenderPage(pageNumber) ==
    IF pageNumber < 0 \/ pageNumber >= numberOfPages
    THEN numberOfPages - 1
    ELSE pageNumber

(***************************************************************************)
(* The cache region: fc = first_cached, lc = last_cached,                  *)
(* fd = first_delete, ld = last_delete.                                    *)
(***************************************************************************)
Window == [fc |-> first_cached, lc |-> last_cached,
           fd |-> first_delete, ld |-> last_delete]

\* The reset of the cache region to an empty region at page p.
ResetWindow(p) == [fc |-> p, lc |-> p - 1, fd |-> 0, ld |-> numberOfPages - 1]

\* updateCache, in the simply connected region: make sure that deleting
\* starts outside the region.
WidenWindow(w, cur, cacheNumber) ==
    LET ld1 == IF w.ld > cur + cacheNumber THEN w.ld ELSE cur + cacheNumber
        ld2 == IF ld1 >= numberOfPages THEN numberOfPages - 1 ELSE ld1
        fd1 == IF w.fd > cur - (cacheNumber \div 2)
               THEN cur - (cacheNumber \div 2) ELSE w.fd
        fd2 == IF fd1 < 0 THEN 0 ELSE fd1
    IN  [w EXCEPT !.ld = ld2, !.fd = fd2]

\* updateCache: the test for leaving the simply connected region.
OutsideRegion(w, cur) == w.fc > cur \/ w.lc < cur

\* updateCache: the value given to cacheSize.
TrackedSize(c) ==
    IF maxCacheSize > 0
    THEN SumStores(c, stores)
    ELSE UnlimitedCacheSize

(***************************************************************************)
(* ControlScreen::updateCache, called with current page cur, region w,     *)
(* cache maps c, tracked size cs and timer state t.                        *)
(***************************************************************************)
UpdateCache(cur, w, c, cs, t) ==
    IF maxCacheSize = 0 \/ maxCacheNumber = 0
    THEN [c |-> ClearCache(c, stores), cs |-> cs, w |-> w, t |-> t,
          outcome |-> "disabled"]
    ELSE IF AllCached(c)
    THEN [c |-> c, cs |-> cs, w |-> w, t |-> FALSE, outcome |-> "full"]
    ELSE LET cacheNumber == Length(c, "pres")
             w2 == IF OutsideRegion(w, cur)
                   THEN ResetWindow(cur)
                   ELSE WidenWindow(w, cur, cacheNumber)
         IN  [c |-> c, cs |-> TrackedSize(c), w |-> w2,
              t |-> (w2.lc < numberOfPages - 1 \/ w2.fc > 0),
              outcome |-> IF OutsideRegion(w, cur) THEN "reset" ELSE "widen"]

(***************************************************************************)
(* ControlScreen::freeCachePage.                                           *)
(***************************************************************************)
\* Mutant: the test forgets the page budget.
BudgetSatisfiedBytesOnly(c, cs) == cs <= maxCacheSize

\* In the operators below an intermediate result x of the code is written
\* CHOOSE res \in {F(x) : x \in {e}} : TRUE, which is F(e) with e computed
\* once.

\* The test after which freeCachePage returns true.
BudgetSatisfied(c, cs) ==
    /\ cs <= maxCacheSize
    /\ (maxCacheNumber >= numberOfPages \/ Length(c, "pres") <= maxCacheNumber)

\* CacheMap::clearPage(page) on the cache maps of S that exist: the page is
\* removed, its size is subtracted from cacheSize.
FreeIn(r, S, page) ==
    LET E == S \cap stores
    IN  [c  |-> [s \in AllStores |-> IF s \in E THEN r.c[s] \ {page} ELSE r.c[s]],
         cs |-> r.cs - SumStores([s \in AllStores |->
                                    IF s \in E THEN r.c[s] \cap {page} ELSE {}],
                                 AllStores),
         freed |-> r.freed \cup {<<s, page>> : s \in {x \in E : page \in r.c[x]}}]

\* The value freeCachePage returns with: done is its boolean result.
FreeResult(r, done) == [c |-> r.c, cs |-> r.cs, freed |-> r.freed, done |-> done]

\* After previewCacheX and previewCache: the test, then the presentation.
FreeAfterPreview(r, page) ==
    IF BudgetSatisfied(r.c, r.cs) THEN FreeResult(r, TRUE)
    ELSE CHOOSE res \in {FreeResult(x, FALSE) :
                             x \in {FreeIn(r, {"pres"}, page)}} : TRUE

\* Mutant: no test after the notes, the previews are always cleared.
FreeAfterNotesNoTest(r, page) ==
    CHOOSE res \in {FreeAfterPreview(x, page) :
                        x \in {FreeIn(r, {"previewX", "preview"}, page)}} : TRUE

\* After the notes: the test, then the previews.
FreeAfterNotes(r, page) ==
    IF BudgetSatisfied(r.c, r.cs) THEN FreeResult(r, TRUE)
    ELSE CHOOSE res \in {FreeAfterPreview(x, page) :
                             x \in {FreeIn(r, {"previewX", "preview"}, page)}} : TRUE

\* After drawSlideCache, if it exists: the test, then the notes.
FreeAfterDraw(r, page) ==
    IF "draw" \in stores /\ BudgetSatisfied(r.c, r.cs) THEN FreeResult(r, TRUE)
    ELSE CHOOSE res \in {FreeAfterNotes(x, page) :
                             x \in {FreeIn(r, {"notes"}, page)}} : TRUE

FreeCachePage(c, cs, page) ==
    CHOOSE res \in {FreeAfterDraw(x, page) :
                        x \in {FreeIn([c |-> c, cs |-> cs, freed |-> {}],
                                      {"draw"}, page)}} : TRUE

(***************************************************************************)
(* The eviction loop of ControlScreen::updateCacheStep.                    *)
(***************************************************************************)
\* The loop condition.
OverBudget(c, cs) ==
    \/ cs > maxCacheSize
    \/ (maxCacheNumber < numberOfPages /\ Length(c, "pres") > maxCacheNumber)

\* Mutant: the loop always deletes from the tail.
DeleteLastAlways(w, cur) == TRUE

\* "Start deleting later slides if less than 1/4 of the cached slides are
\* previous slides".
DeleteLast(w, cur) == w.ld > 4 * cur - 3 * w.fd

\* The check at the end of an iteration.
NeedReset(w) == w.lc > w.ld \/ w.fc < w.fd

\* No iteration can change anything any more once both delete pointers have
\* left the document.  last_delete moves at most 4 * numberOfPages times
\* before first_delete moves, and at most 3 times after each move of
\* first_delete: after 8 * numberOfPages iterations both pointers are outside
\* the document, and a loop that runs longer never ends.
LoopFuel == 8 * numberOfPages + 8

\* The page handed to freeCachePage in an iteration.
VictimPage(w, cur) == IF DeleteLast(w, cur) THEN w.ld ELSE w.fd

\* The delete pointer moved and the region clamped after freeCachePage
\* returned false.
AdvanceWindow(w, cur) ==
    IF DeleteLast(w, cur)
    THEN [w EXCEPT !.ld = w.ld - 1,
                   !.lc = IF w.ld - 1 > w.lc THEN w.lc ELSE w.ld - 1]
    ELSE [w EXCEPT !.fd = w.fd + 1,
                   !.fc = IF w.fc > w.fd + 1 THEN w.fc ELSE w.fd + 1]

\* The value the loop ends with.
LoopResult(c, cs, w, freed, victims, status) ==
    [c |-> c, cs |-> cs, w |-> w, freed |-> freed, victims |-> victims,
     status |-> status]

RECURSIVE EvictLoop(_, _, _, _, _, _, _)
RECURSIVE EvictIteration(_, _, _, _, _, _, _)

\* One iteration, given the result f of freeCachePage and the moved window.
EvictIteration(f, w, w2, cur, fuel, freed, victims) ==
    IF f.done THEN LoopResult(f.c, f.cs, w, freed \cup f.freed, victims, "done")
    ELSE IF NeedReset(w2)
    THEN LoopResult(f.c, f.cs, w2, freed \cup f.freed, victims, "abort")
    ELSE EvictLoop(f.c, f.cs, w2, cur, fuel - 1, freed \cup f.freed, victims)

EvictLoop(c, cs, w, cur, fuel, freed, victims) ==
    IF ~OverBudget(c, cs) THEN LoopResult(c, cs, w, freed, victims, "done")
    ELSE IF fuel = 0 THEN LoopResult(c, cs, w, freed, victims, "hang")
    ELSE CHOOSE res \in
             {EvictIteration(f, w, w2, cur, fuel, freed,
                             victims \cup {VictimPage(w, cur)}) :
                  f \in {FreeCachePage(c, cs, VictimPage(w, cur))},
                  w2 \in {AdvanceWindow(w, cur)}} : TRUE

(***************************************************************************)
(* CacheMap::updateCache(page): start the cache thread unless the page is  *)
(* cached or the thread is busy; true iff the thread was started.          *)
(***************************************************************************)
StartsThread(c, s, page) == page \notin c[s] /\ rendering[s] = NoPage

\* Mutant: cachePage starts every idle thread, whatever its cache map holds.
CachePageStartedIdle(c, page) == {s \in stores : rendering[s] = NoPage}

\* ControlScreen::cachePage: the cache maps whose thread is started ...
CachePageStarted(c, page) == {s \in stores : StartsThread(c, s, page)}
\* Mutant: cachePage counts every cache map that lacks the page, whether
\* its thread could be started or not.
CachePageCountLacking(c, page) == Cardinality({s \in stores : page \notin c[s]})

\* ... and the value of cacheThreadsRunning afterwards.
CachePageCount(c, page) == Cardinality(CachePageStarted(c, page))

(***************************************************************************)
(* The decision of updateCacheStep after the eviction loop.                *)
(***************************************************************************)
\* Condition for caching first_cached-1 when the region reaches the end.
BackwardSlack(c, cs, w) ==
    /\ w.fc > w.fd
    /\ 2 * maxCacheSize > 3 * cs
    /\ (maxCacheNumber = numberOfPages \/ 2 * maxCacheNumber > 3 * Length(c, "pres"))

\* Mutant: the guard ignores the pages cached after the current page.
ThrashGuardNoAhead(c, cs, w, cur) ==
    /\ 2 * maxCacheSize < 3 * cs
    /\ (maxCacheSize - cs) * Length(c, "pres") < 2 * cs

\* "Don't continue if it is likely that the next cached page would directly
\* be deleted."
ThrashGuard(c, cs, w, cur) ==
    /\ 2 * maxCacheSize < 3 * cs
    /\ (w.lc = numberOfPages
        \/ 3 * (w.lc - cur) * cs > 2 * Length(c, "pres") * maxCacheSize)
    /\ (maxCacheSize - cs) * Length(c, "pres") < 2 * cs

\* The page handed to cachePage, or NoPage, and the region afterwards.
Schedule(c, cs, w, cur) ==
    IF w.lc + 1 = numberOfPages
    THEN IF BackwardSlack(c, cs, w)
         THEN [page |-> w.fc - 1, w |-> [w EXCEPT !.fc = w.fc - 1], go |-> TRUE]
         ELSE [page |-> NoPage, w |-> w, go |-> FALSE]
    ELSE IF ThrashGuard(c, cs, w, cur)
         THEN [page |-> NoPage, w |-> w, go |-> FALSE]
         ELSE [page |-> w.lc + 1, w |-> [w EXCEPT !.lc = w.lc + 1], go |-> TRUE]

\* Mutant: the step never finds the region inconsistent.
InconsistentNever(w, cur) == FALSE

\* Mutant: the region is not compared with the delete pointers.
InconsistentNoDeleteTests(w, cur) == w.fc > cur \/ w.lc < cur - 1

\* The first two tests of updateCacheStep.
Inconsistent(w, cur) ==
    \/ w.lc > w.ld
    \/ w.fc < w.fd
    \/ w.fc > cur
    \/ w.lc < cur - 1

(***************************************************************************)
(* State after construction, configuration and the first updateCache():    *)
(* nothing cached, an empty region at page 0, the timer started unless     *)
(* the cache is disabled.                                                   *)
(***************************************************************************)
CacheSizeChoices == {-1, 0, SomeBytes}
CacheNumberChoices == {-1, 0, SomeNumber}
StoreChoices == {BaseStores}

\* The control screen after its construction and the first updateCache().
ScreenInit(n, S, size, number) ==
    /\ numberOfPages = n
    /\ currentPageNumber = 0
    /\ presPage = 0
    /\ first_cached = 0
    /\ last_cached = -1
    /\ first_delete = 0
    /\ last_delete = n - 1
    /\ maxCacheSize = size
    /\ maxCacheNumber = number
    /\ cacheSize = IF size > 0 THEN 0 ELSE UnlimitedCacheSize
    /\ cacheThreadsRunning = 0
    /\ timerActive = (size # 0 /\ number # 0)
    /\ stores = S
    /\ cache = [s \in AllStores |-> {}]
    /\ rendering = [s \in AllStores |-> NoPage]
    /\ stale = {}
    /\ hung = FALSE
    /\ events = <<>>
    /\ failures = 0
    /\ ev = NoEvent
    /\ renderer = "poppler"

InitWith(n, S, size, number) ==
    /\ ScreenInit(n, S, size, number)
    /\ label = NoLabel
    /\ call = NoCall

Init ==
    \E S \in StoreChoices, size \in {-1, SomeBytes},
       number \in {NumPages, SomeNumber} :
        InitWith(NumPages, S, size, number)

\* The user and the window system act only while the GUI thread responds.
EnvEnabled == ~hung

(***************************************************************************)
(* Navigation: renderPage(pageNumber) followed by updateCache().           *)
(***************************************************************************)
\* The state after updateCache() returned u with current page cur.
NavigateApply(op, cur, newPres, u) ==
    /\ currentPageNumber' = cur
    /\ presPage' = newPres
    /\ cache' = u.c
    /\ cacheSize' = u.cs
    /\ first_cached' = u.w.fc
    /\ last_cached' = u.w.lc
    /\ first_delete' = u.w.fd
    /\ last_delete' = u.w.ld
    /\ timerActive' = u.t
    /\ stale' = IF u.outcome = "disabled" THEN stale \cup (stores \cap Busy)
                 ELSE stale
    /\ ev' = Event(op, cur, "none", FALSE, {}, {}, {}, Busy, u.outcome)
    /\ events' = Append(events, "nav")
    /\ UNCHANGED <<label, call, renderer, numberOfPages, maxCacheSize, maxCacheNumber,
                   cacheThreadsRunning, stores, rendering, hung, failures>>

Navigate(op, pageNumber, newPres) ==
    NavigateApply(op, RenderPage(pageNumber), newPres,
                  UpdateCache(RenderPage(pageNumber), Window, cache, cacheSize,
                              timerActive))

\* ControlScreen::receiveNewPageNumber: the presentation shows the page too.
ReceiveNewPageNumber(pageNumber) ==
    /\ EnvEnabled
    /\ Navigate("nav", pageNumber, RenderPage(pageNumber))

\* ControlScreen::receiveNextSlideStart: only the control screen moves.
ReceiveNextSlideStart(next) ==
    /\ EnvEnabled
    /\ currentPageNumber < numberOfPages - 1
    /\ next > currentPageNumber
    /\ Navigate("nextslide", next, presPage)

(***************************************************************************)
(* ControlScreen::updateCacheStep, called by cacheTimer while it is active. *)
(***************************************************************************)
\* The step returns without touching the caches.
StepStay(outcome) ==
    [c |-> cache, cs |-> cacheSize, w |-> Window, t |-> FALSE,
     n |-> cacheThreadsRunning, page |-> NoPage, started |-> {}, freed |-> {},
     victims |-> {}, hang |-> FALSE, outcome |-> outcome]

\* The step ends after the eviction loop e without a call of cachePage.
StepStop(e, outcome, hang) ==
    [c |-> e.c, cs |-> e.cs, w |-> e.w,
     t |-> IF hang THEN timerActive ELSE FALSE,
     n |-> cacheThreadsRunning, page |-> NoPage, started |-> {},
     freed |-> e.freed, victims |-> e.victims, hang |-> hang,
     outcome |-> outcome]

\* Mutant: cachePage leaves the timer stopped.
TimerAfterCachePageOff(count) == FALSE

\* cachePage: the timer is started again if no thread was started.
TimerAfterCachePage(count) == count = 0

\* The step after the eviction loop e and the decision d of Schedule.
StepDispatch(e, d) ==
    IF ~d.go THEN StepStop(e, "stop", FALSE)
    ELSE [c |-> e.c, cs |-> e.cs, w |-> d.w,
          t |-> TimerAfterCachePage(CachePageCount(e.c, d.page)),
          n |-> CachePageCount(e.c, d.page),
          page |-> d.page,
          started |-> CachePageStarted(e.c, d.page),
          freed |-> e.freed, victims |-> e.victims,
          hang |-> FALSE, outcome |-> "cache"]

\* The step after the eviction loop e.
StepAfterEviction(e) ==
    IF e.status = "hang" THEN StepStop(e, "hang", TRUE)
    ELSE IF e.status = "abort" THEN StepStop(e, "abort", FALSE)
    ELSE StepDispatch(e, Schedule(e.c, e.cs, e.w, currentPageNumber))

StepResult ==
    IF AllCached(cache) THEN StepStay("full")
    ELSE IF Inconsistent(Window, currentPageNumber) THEN StepStay("inconsistent")
    ELSE CHOOSE res \in
             {StepAfterEviction(e) :
                  e \in {EvictLoop(cache, cacheSize, Window, currentPageNumber,
                                   LoopFuel, {}, {})}} : TRUE

\* The state after a step with result r.
StepApply(r) ==
    /\ cache' = r.c
    /\ cacheSize' = r.cs
    /\ first_cached' = r.w.fc
    /\ last_cached' = r.w.lc
    /\ first_delete' = r.w.fd
    /\ last_delete' = r.w.ld
    /\ timerActive' = r.t
    /\ cacheThreadsRunning' = r.n
    /\ rendering' = [s \in AllStores |->
                        IF s \in r.started THEN r.page ELSE rendering[s]]
    /\ hung' = r.hang
    /\ ev' = Event("step", r.page, "none", FALSE, r.started, r.freed,
                   r.victims, Busy, r.outcome)

UpdateCacheStep ==
    /\ ~hung
    /\ timerActive
    /\ \E r \in {StepResult} : StepApply(r)
    /\ UNCHANGED <<label, call, renderer, numberOfPages, currentPageNumber, presPage, maxCacheSize,
                   maxCacheNumber, stores, stale, events, failures>>

(***************************************************************************)
(* A cache thread finishes: the cache map receives the image (or nothing,  *)
(* if rendering failed), stores it unless the page is present, reports the *)
(* bytes added (ControlScreen::updateCacheSize) and the end of the thread  *)
(* (ControlScreen::cacheThreadFinished).                                   *)
(***************************************************************************)
\* The renderer can only produce an image for a page of the document.
Renderable(page) == page >= 0 /\ page < numberOfPages

\* The cache map after receiving the result of its thread.
Insert(c, s, page, ok) ==
    IF ok /\ page \notin c[s] THEN [c EXCEPT ![s] = c[s] \cup {page}] ELSE c

\* The bytes added by that.
BytesAdded(c, s, page, ok) ==
    IF ok /\ page \notin c[s] THEN BlobBytes(s, page) ELSE 0

\* ControlScreen::cacheThreadFinished: the counter ...
ThreadsAfterFinish(n) == n - 1
\* ... and the timer.
TimerAfterFinish(n, t) == IF ThreadsAfterFinish(n) = 0 THEN TRUE ELSE t

CacheThreadFinished(s, rendered) ==
    /\ ~hung
    /\ rendering[s] # NoPage
    /\ failures' = IF rendered THEN failures ELSE failures + 1
    /\ LET page == rendering[s]
           ok   == rendered /\ Renderable(page)
       IN  /\ cache' = Insert(cache, s, page, ok)
           /\ cacheSize' = cacheSize + BytesAdded(cache, s, page, ok)
           /\ rendering' = [rendering EXCEPT ![s] = NoPage]
           /\ cacheThreadsRunning' = ThreadsAfterFinish(cacheThreadsRunning)
           /\ timerActive' = TimerAfterFinish(cacheThreadsRunning, timerActive)
           /\ stale' = stale \ {s}
           /\ ev' = Event("finished", page, s, ok, {}, {}, {}, Busy,
                          IF s \in stale THEN "stale" ELSE "fresh")
    /\ UNCHANGED <<label, call, renderer, numberOfPages, currentPageNumber, presPage, first_cached,
                   last_cached, first_delete, last_delete, maxCacheSize,
                   maxCacheNumber, stores, hung, events>>

(***************************************************************************)
(* ControlScreen::resizeEvent.                                             *)
(***************************************************************************)
\* The cache maps of the control screen, cleared by a resize.
ResizedStores == {"notes", "preview", "previewX", "draw"}

ResizeEvent ==
    /\ EnvEnabled
    /\ timerActive' = FALSE
    /\ first_cached' = presPage
    /\ last_cached' = presPage - 1
    /\ first_delete' = 0
    /\ last_delete' = numberOfPages - 1
    /\ cache' = ClearCache(cache, ResizedStores \cap stores)
    /\ stale' = stale \cup (ResizedStores \cap stores \cap Busy)
    /\ ev' = Event("resize", NoPage, "none", FALSE, {}, {}, {}, Busy, "none")
    /\ events' = Append(events, "resize")
    /\ UNCHANGED <<label, call, renderer, numberOfPages, currentPageNumber, presPage, maxCacheSize,
                   maxCacheNumber, cacheSize, cacheThreadsRunning, stores,
                   rendering, hung, failures>>

(***************************************************************************)
(* ControlScreen::setCacheNumber and ControlScreen::setCacheSize.          *)
(***************************************************************************)
\* Mutant: the number is stored as it is given.
NewCacheNumberRaw(number) == number

\* The value setCacheNumber gives to maxCacheNumber.
NewCacheNumber(number) == IF number < 0 THEN numberOfPages ELSE number

SetCacheNumber(number) ==
    /\ EnvEnabled
    /\ maxCacheNumber' = NewCacheNumber(number)
    /\ timerActive' = IF number = 0 THEN FALSE ELSE timerActive
    /\ ev' = Event("setNumber", number, "none", FALSE, {}, {}, {}, Busy, "none")
    /\ events' = Append(events, "budget")
    /\ UNCHANGED <<label, call, renderer, numberOfPages, currentPageNumber, presPage, first_cached,
                   last_cached, first_delete, last_delete, maxCacheSize,
                   cacheSize, cacheThreadsRunning, stores, cache, rendering, stale,
                   hung, failures>>

SetCacheSize(size) ==
    /\ EnvEnabled
    /\ maxCacheSize' = size
    /\ timerActive' = IF cacheSize = 0 THEN FALSE ELSE timerActive
    /\ ev' = Event("setSize", size, "none", FALSE, {}, {}, {}, Busy, "none")
    /\ events' = Append(events, "budget")
    /\ UNCHANGED <<label, call, renderer, numberOfPages, currentPageNumber, presPage, first_cached,
                   last_cached, first_delete, last_delete, maxCacheNumber,
                   cacheSize, cacheThreadsRunning, stores, cache, rendering, stale,
                   hung, failures>>

(***************************************************************************)
(* ControlScreen::setRenderer.  A command is described by what the code    *)
(* tests: whether it is the single word "poppler", and which of the        *)
(* arguments it contains.                                                  *)
(***************************************************************************)
RendererArguments == {"%file", "%page", "%width", "%height"}
ValidCommand == [poppler |-> FALSE, args |-> RendererArguments]
Commands ==
    {[poppler |-> TRUE, args |-> {}], ValidCommand,
     [poppler |-> FALSE, args |-> {"%file", "%page"}]}

\* Mutant: a new renderer makes the cached pages useless.
RendererSetClear(c, program) == ClearCache(c, stores)

\* CacheMap::setRenderer(program) on every cache map that exists: the
\* cached pages stay.
RendererSet(c, program) == c

\* What setRenderer does with the command.
SetRendererOutcome(command) ==
    IF command.poppler THEN "poppler"
    ELSE IF command.args # RendererArguments THEN "throw"
    ELSE "custom"

SetRenderer(command) ==
    /\ EnvEnabled
    /\ renderer' = IF SetRendererOutcome(command) = "custom" THEN "program"
                   ELSE renderer
    /\ cache' = IF SetRendererOutcome(command) = "custom"
                THEN RendererSet(cache, "program") ELSE cache
    /\ ev' = Event("setRenderer", NoPage, "none", FALSE, {}, {}, {}, Busy,
                   SetRendererOutcome(command))
    /\ events' = Append(events, "renderer")
    /\ UNCHANGED <<label, call, numberOfPages, currentPageNumber, presPage,
                   first_cached, last_cached, first_delete, last_delete,
                   maxCacheSize, maxCacheNumber, cacheSize, cacheThreadsRunning,
                   timerActive, stores, rendering, stale, hung, failures>>

(***************************************************************************)
(* The specification: every handler.  A behaviour has at most MaxEvents    *)
(* events of the user and the window system and at most MaxFailures failed *)
(* render jobs, or at most MaxNavigations navigation events and no failed  *)
(* render job.                                                             *)
(***************************************************************************)
\* Only navigation has happened: no resize, no change of the budgets.
NavigationOnly == \A i \in 1 .. Len(events) : events[i] = "nav"

MayAct(kind) ==
    \/ Len(events) < MaxEvents
    \/ /\ kind = "nav"
       /\ NavigationOnly
       /\ failures = 0
       /\ Len(events) < MaxNavigations

MayFail == failures < MaxFailures /\ Len(events) <= MaxEvents

Next ==
    \/ \E pageNumber \in -1 .. numberOfPages :
           MayAct("nav") /\ ReceiveNewPageNumber(pageNumber)
    \/ \E next \in 1 .. numberOfPages - 1 :
           MayAct("nav") /\ ReceiveNextSlideStart(next)
    \/ UpdateCacheStep
    \/ \E s \in AllStores : CacheThreadFinished(s, TRUE)
    \/ \E s \in AllStores : MayFail /\ CacheThreadFinished(s, FALSE)
    \/ MayAct("resize") /\ ResizeEvent
    \/ \E number \in CacheNumberChoices : MayAct("budget") /\ SetCacheNumber(number)
    \/ \E size \in CacheSizeChoices : MayAct("budget") /\ SetCacheSize(size)
    \/ \E command \in Commands : MayAct("renderer") /\ SetRenderer(command)

Spec == Init /\ [][Next]_vars

(***************************************************************************)
(* Vocabulary of the properties.                                           *)
(***************************************************************************)
\* The last handler was a timer step whose eviction loop ran to its end.
EvictionFinished == ev.op = "step" /\ ev.outcome \in {"stop", "cache"}

\* The byte budget and the page budget are limited.
BytesLimited == maxCacheSize > 0
PagesLimited == maxCacheNumber < numberOfPages

(***************************************************************************)
(* C1  Budget invariant.  After the eviction loop of a timer step has      *)
(* finished, in a behaviour of navigation, steps and finished render jobs, *)
(* the bytes held by all cache maps are at most maxCacheSize unless the    *)
(* byte budget is unlimited, and the presentation cache map holds at most  *)
(* maxCacheNumber pages unless the page budget is unlimited.               *)
(***************************************************************************)
C1_BudgetInvariant ==
    (EvictionFinished /\ NavigationOnly) =>
        /\ BytesLimited => TotalBytes(cache) <= maxCacheSize
        /\ PagesLimited => Length(cache, "pres") <= maxCacheNumber

\* A step that had to delete pages to get back into a limited budget.
C1_Witness ==
    /\ EvictionFinished /\ NavigationOnly
    /\ ev.freed # {}
    /\ BytesLimited /\ PagesLimited

(***************************************************************************)
(* C2  Window containment.  In every reachable state in which the cache    *)
(* region is not empty (last_cached >= first_cached), it contains the      *)
(* current page: first_cached <= currentPageNumber <= last_cached.         *)
(***************************************************************************)
C2_WindowContainment ==
    last_cached >= first_cached =>
        first_cached <= currentPageNumber /\ currentPageNumber <= last_cached

(***************************************************************************)
(* C3  No redundant render.  A cache thread never renders a page its cache *)
(* map holds, and a timer step that hands a page to cachePage starts and   *)
(* counts exactly the threads of the cache maps that do not hold the page. *)
(***************************************************************************)
C3_NoRedundantRender ==
    /\ \A s \in AllStores : rendering[s] # NoPage => rendering[s] \notin cache[s]
    /\ (ev.op = "step" /\ ev.outcome = "cache") =>
          /\ \A s \in ev.started : rendering[s] = ev.page /\ ev.page \notin cache[s]
          /\ cacheThreadsRunning = Cardinality(ev.started)

\* A page was handed to cachePage while one cache map held it and another
\* did not: one thread is started, the other is not.
C3_Witness ==
    /\ ev.op = "step" /\ ev.outcome = "cache"
    /\ ev.started # {}
    /\ \E s \in stores : ev.page \in cache[s]

(***************************************************************************)
(* C4  Stale-insert immunity.  When a render job finishes whose cache map  *)
(* was cleared while the job was in flight, the cache map does not hold    *)
(* the job's page afterwards.  (No new job can have been started for the   *)
(* cache map in between: its thread was busy.)                             *)
(***************************************************************************)
C4_StaleInsertImmunity ==
    (ev.op = "finished" /\ ev.outcome = "stale") => ev.page \notin cache[ev.store]

(***************************************************************************)
(* C6  Render failure is non-fatal.  Every finished render job, rendered   *)
(* or failed, leaves its thread idle; once no job is in flight any more,   *)
(* cacheThreadsRunning is 0 and the timer is started.                      *)
(***************************************************************************)
C6_FailureNonFatal ==
    ev.op = "finished" =>
        /\ rendering[ev.store] = NoPage
        /\ Busy = {} => (cacheThreadsRunning = 0 /\ timerActive)

(***************************************************************************)
(* C9  A budget of zero flushes at once.  Right after setCacheSize(0) or   *)
(* setCacheNumber(0) returns, every cache map is empty.                    *)
(***************************************************************************)
C9_ZeroBudgetFlushes ==
    (ev.op \in {"setSize", "setNumber"} /\ ev.page = 0) =>
        \A s \in stores : cache[s] = {}

(***************************************************************************)
(* C10  The timer step is not re-entrant.  A timer step that runs while    *)
(* some render job has not reported its end deletes no page and hands no   *)
(* page to cachePage.                                                      *)
(***************************************************************************)
C10_StepNotReentrant ==
    (ev.op = "step" /\ ev.busy # {}) =>
        ev.freed = {} /\ ev.started = {}

(***************************************************************************)
(* Scenarios.  A document of ten pages, cached with a budget of three      *)
(* pages and no limit on the bytes; every render job succeeds.             *)
(***************************************************************************)
\* The cache maps of the control screen: without and with the draw slide.
ScenarioStores == {BaseStores, BaseStores \cup {"draw"}, AllStores}

ScenarioInit == \E S \in ScenarioStores : InitWith(10, S, -1, 3)

\* Scenario A: the user stays on page 0.
NextA ==
    \/ UpdateCacheStep
    \/ \E s \in AllStores : CacheThreadFinished(s, TRUE)

SpecA == ScenarioInit /\ [][NextA]_vars

\* Scenario B: the user jumps to page 5 before anything is cached ...
JumpB ==
    /\ events = <<>>
    /\ ev.op = "init"
    /\ ReceiveNewPageNumber(5)

\* ... and moves on to page 6 when every cache map holds pages 5 to 7.
MoveB ==
    /\ Len(events) = 1
    /\ currentPageNumber = 5
    /\ \A s \in stores : cache[s] = 5 .. 7
    /\ ReceiveNewPageNumber(6)

NextB ==
    \/ JumpB
    \/ MoveB
    \/ UpdateCacheStep
    \/ \E s \in AllStores : CacheThreadFinished(s, TRUE)

SpecB == ScenarioInit /\ [][NextB]_vars

(***************************************************************************)
(* Scenario D: a document of five pages cached without limits, the user    *)
(* stays on page 0, and at most MaxFailures render jobs fail.  The timer   *)
(* fires while it is active and a started cache thread finishes, hence the *)
(* weak fairness of the step and of the end of each thread.                *)
(***************************************************************************)
InitD == \E S \in ScenarioStores : InitWith(5, S, -1, 5)

NextD ==
    \/ UpdateCacheStep
    \/ \E s \in AllStores : CacheThreadFinished(s, TRUE)
    \/ \E s \in AllStores : failures < MaxFailures /\ CacheThreadFinished(s, FALSE)

FairnessD ==
    /\ WF_vars(UpdateCacheStep)
    /\ \A s \in AllStores : WF_vars(CacheThreadFinished(s, TRUE))

SpecD == InitD /\ [][NextD]_vars /\ FairnessD

\* The scheduler has stopped: the timer is off and no thread is rendering.
SchedulerStopped == ~timerActive /\ Busy = {}

(***************************************************************************)
(* C5  Retry after a render failure.  A failed render job leaves its page  *)
(* absent from the cache map, and with the page and the budgets unchanged  *)
(* a later step starts the thread of that cache map for that page again.   *)
(***************************************************************************)
C5_RetryAfterFailure ==
    /\ []((ev.op = "finished" /\ ~ev.ok) => ev.page \notin cache[ev.store])
    /\ \A s \in AllStores : \A p \in 0 .. 4 :
          (ev.op = "finished" /\ ~ev.ok /\ ev.store = s /\ ev.page = p)
              ~> (rendering[s] = p)

(***************************************************************************)
(* C7  Scenario A.  Steps and finished render jobs end in a state in which *)
(* the scheduler has stopped and every cache map holds exactly the pages   *)
(* 0, 1 and 2: whenever the scheduler has stopped, that is what the cache  *)
(* maps hold.                                                              *)
(***************************************************************************)
C7_ScenarioA ==
    SchedulerStopped => \A s \in stores : cache[s] = 0 .. 2

(***************************************************************************)
(* C8  Scenario B.  The jump to page 5 resets the region to the empty      *)
(* region at 5; once the steps have filled every cache map with pages 5 to *)
(* 7, the move to page 6 does not reset the region, and when the scheduler *)
(* has stopped after it, page 5 is deleted from and page 8 is stored in    *)
(* every cache map.                                                        *)
(***************************************************************************)
C8_ScenarioB ==
    /\ (ev.op = "nav" /\ Len(events) = 1) =>
          (first_cached = 5 /\ last_cached = 4 /\ ev.outcome = "reset")
    /\ (ev.op = "nav" /\ Len(events) = 2) => ev.outcome # "reset"
    /\ (Len(events) = 2 /\ SchedulerStopped) =>
          \A s \in stores : 5 \notin cache[s] /\ 8 \in cache[s]

(***************************************************************************)
(* C11  At most one render per cache thread.  A step that calls cachePage  *)
(* starts no thread that was rendering when the step began, leaves every   *)
(* such thread with the job it had, and counts in cacheThreadsRunning only *)
(* the threads it started.                                                 *)
(***************************************************************************)
C11_OneRenderPerThread ==
    (ev.op = "step" /\ ev.outcome = "cache") =>
        /\ ev.started \cap ev.busy = {}
        /\ \A s \in ev.busy : rendering[s] # NoPage
        /\ cacheThreadsRunning = Cardinality(ev.started)
        /\ Busy = ev.busy \cup ev.started

\* cachePage was called while a thread was rendering and a cache map with a
\* rendering thread lacked the page: that dispatch was rejected.
C11_Witness ==
    /\ ev.op = "step" /\ ev.outcome = "cache"
    /\ \E s \in ev.busy \cap stores : ev.page \notin cache[s]

(***************************************************************************)
(* C12  No eviction from a cache map whose thread is rendering.  The      *)
(* eviction loop of a step deletes no page from a cache map whose thread   *)
(* was rendering when the step began.                                      *)
(***************************************************************************)
C12_NoEvictionWhileRendering ==
    ev.op = "step" => \A f \in ev.freed : f[1] \notin ev.busy

(***************************************************************************)
(* C13  Cache maps are cleared only after the render jobs have finished.   *)
(* A resize clears no cache map whose thread is still rendering.           *)
(***************************************************************************)
C13_ClearAfterJobsFinished ==
    ev.op = "resize" => ev.busy \cap ResizedStores \cap stores = {}

(***************************************************************************)
(* C14  Eviction precedes dispatch.  Whenever a step calls cachePage, the  *)
(* bytes held by all cache maps are at most maxCacheSize unless the byte   *)
(* budget is unlimited, and the presentation cache map holds at most       *)
(* maxCacheNumber pages unless the page budget is unlimited.               *)
(***************************************************************************)
C14_EvictionPrecedesDispatch ==
    (ev.op = "step" /\ ev.outcome = "cache") =>
        /\ BytesLimited => TotalBytes(cache) <= maxCacheSize
        /\ PagesLimited => Length(cache, "pres") <= maxCacheNumber


(***************************************************************************)
(* C15  Navigation and the cache region.  A navigation to page p resets    *)
(* the region exactly when p lies outside it: if p < first_cached or       *)
(* p > last_cached the result is first_cached = p, last_cached = p - 1,    *)
(* first_delete = 0, last_delete = numberOfPages - 1; otherwise            *)
(* first_cached and last_cached are unchanged.  In both cases the timer is *)
(* started unless the region spans all pages or every cache map holds      *)
(* every page.                                                             *)
(***************************************************************************)
\* The handler now taking a step is a navigation.
NavigationStep == ev'.op \in {"nav", "nextslide"}

\* The region after the step is the empty region at the new current page.
RegionResetAfter ==
    /\ first_cached' = currentPageNumber'
    /\ last_cached' = currentPageNumber' - 1
    /\ first_delete' = 0
    /\ last_delete' = numberOfPages - 1

\* After the step the region spans all pages or every cache map is full.
NothingToCacheAfter ==
    \/ first_cached' = 0 /\ last_cached' = numberOfPages - 1
    \/ \A s \in stores : Length(cache', s) = numberOfPages

NavigationEffect ==
    /\ OutsideRegion(Window, currentPageNumber') => RegionResetAfter
    /\ ~OutsideRegion(Window, currentPageNumber') =>
           first_cached' = first_cached /\ last_cached' = last_cached
    /\ ~NothingToCacheAfter => timerActive'

C15_NavigationResetsRegion == [][NavigationStep => NavigationEffect]_vars


(***************************************************************************)
(* A control window that is resized while the control screen and the       *)
(* presentation may show different pages: receiveNextSlideStart, timer     *)
(* steps, finished render jobs and resizeEvent, with at most               *)
(* MaxResizeEvents events of the user and the window system.               *)
(***************************************************************************)
MaxResizeEvents == 2

NextR ==
    \/ \E next \in 1 .. numberOfPages - 1 :
           Len(events) < MaxResizeEvents /\ ReceiveNextSlideStart(next)
    \/ UpdateCacheStep
    \/ \E s \in AllStores : CacheThreadFinished(s, TRUE)
    \/ Len(events) < MaxResizeEvents /\ ResizeEvent

SpecR == Init /\ [][NextR]_vars

(***************************************************************************)
(* C16  Resize clears and resets.  After a resize of the control window    *)
(* the notes, preview, previewX and draw cache maps hold no page and the   *)
(* region is first_cached = currentPageNumber, last_cached =               *)
(* currentPageNumber - 1, first_delete = 0, last_delete = numberOfPages-1, *)
(* where currentPageNumber is the page of the control screen.              *)
(***************************************************************************)
C16_ResizeClearsAndResets ==
    ev.op = "resize" =>
        /\ \A s \in ResizedStores \cap stores : cache[s] = {}
        /\ Window = ResetWindow(currentPageNumber)


(***************************************************************************)
(* A page label and its cache of compressed images.  label.cache is the    *)
(* QMap from page index to image: bytes is the size of the QByteArray, gen *)
(* the number of size changes of the widget before the image was stored    *)
(* (history).  label.size is size(), label.oldSize the size at the last    *)
(* rendering, label.gen the number of size changes so far (history).  For  *)
(* a PageLabel label.caching is useCache; for a PreviewSlide it tells      *)
(* whether cache is not nullptr.                                           *)
(***************************************************************************)
LabelPages == 2
MaxBlobBytes == 2
NumLabelSizes == 2
MaxSizeChanges == 2

Indices == 0 .. LabelPages - 1
\* Sizes of a QByteArray handed to the cache: 0 is a null or empty array.
Blobs == 0 .. MaxBlobBytes
\* Sizes of the image the renderer produces.
Rendered == 1 .. MaxBlobBytes
LabelSizes == 1 .. NumLabelSizes
EmptyCache == [i \in {} |-> 0]

\* cache.contains(index)
Contains(l, index) == index \in DOMAIN l.cache

\* cache[index] = bytes
Put(l, index, bytes) ==
    [l EXCEPT !.cache = [i \in DOMAIN l.cache \cup {index} |->
                            IF i = index THEN [bytes |-> bytes, gen |-> l.gen]
                            ELSE l.cache[i]]]

\* cache.remove(index)
Remove(l, index) ==
    [l EXCEPT !.cache = [i \in DOMAIN l.cache \ {index} |-> l.cache[i]]]

\* The result of a call: the label after it and the value returned.
Returned(l, ret) == [l |-> l, ret |-> ret]

RECURSIVE SumEntries(_, _)
SumEntries(c, D) ==
    IF D = {} THEN 0
    ELSE LET i == CHOOSE x \in D : TRUE
         IN  c[i].bytes + SumEntries(c, D \ {i})

\* PageLabel::getCacheSize
GetCacheSize(l) == SumEntries(l.cache, DOMAIN l.cache)

\* PageLabel::clearCache
LabelClearCache(l) == [l EXCEPT !.cache = EmptyCache]

\* PageLabel::updateCache(QPixmap const*, int), called with a rendered pixmap.
UpdateCachePixmap(l, bytes, index) == Returned(Put(l, index, bytes), bytes)

\* PageLabel::updateCache(QByteArray const*, int)
UpdateCacheBytes(l, bytes, index) ==
    IF bytes = 0 THEN Returned(l, 0)
    ELSE Returned(Put(l, index, bytes), bytes)

\* PageLabel::updateCache(Poppler::Page const*): the page is rendered into
\* an image of the given size unless the cache holds it.
UpdateCachePage(l, index, rendered) ==
    IF Contains(l, index) THEN Returned(l, 0)
    ELSE Returned(Put(l, index, rendered), rendered)

\* Mutant: the size is returned, the image stays in the cache.
ClearCachePageKeep(l, index) ==
    IF Contains(l, index) THEN Returned(l, l.cache[index].bytes)
    ELSE Returned(l, 0)

\* PageLabel::clearCachePage
ClearCachePage(l, index) ==
    IF Contains(l, index) THEN Returned(Remove(l, index), l.cache[index].bytes)
    ELSE Returned(l, 0)

\* Mutant: the new size is remembered, the images stay.
ClearIfResizedKeep(l, hasCache) == [l EXCEPT !.oldSize = l.size]

\* renderPage: old cached images are useless if the label size has changed.
ClearIfResized(l, hasCache) ==
    IF l.size # l.oldSize
    THEN [(IF hasCache THEN LabelClearCache(l) ELSE l) EXCEPT !.oldSize = l.size]
    ELSE l

\* PageLabel::renderPage(page, setDuration, pixmap) after the test of the
\* size: the image is taken from the argument, from the cache, or rendered
\* and, if useCache is set, stored.
ShowPage(l, index, pixmapGiven, rendered) ==
    IF pixmapGiven \/ Contains(l, index) \/ ~l.caching THEN l
    ELSE UpdateCachePixmap(l, rendered, index).l

\* PageLabel::renderPage; index is NoPage if page is nullptr.
PageLabelRender(l, index, pixmapGiven, rendered) ==
    IF index = NoPage THEN l
    ELSE ShowPage(ClearIfResized(l, TRUE), index, pixmapGiven, rendered)

\* PreviewSlide::renderPage: the cache map is only cleared, never filled.
PreviewSlideRender(l) == ClearIfResized(l, l.caching)

\* The record of a call on the label.
Call(op, index, bytes, ret) ==
    [op |-> op, index |-> index, bytes |-> bytes, ret |-> ret, before |-> label]

\* The variables of the control screen.
screenVars == <<numberOfPages, currentPageNumber, presPage, first_cached,
                last_cached, first_delete, last_delete, maxCacheSize,
                maxCacheNumber, cacheSize, cacheThreadsRunning, timerActive,
                stores, cache, rendering, stale, hung, events, failures, ev,
                renderer>>

\* The widget gets a new size.
LabelResized(sz) ==
    /\ sz # label.size
    /\ label.gen < MaxSizeChanges
    /\ label' = [label EXCEPT !.size = sz, !.gen = label.gen + 1]
    /\ call' = Call("resized", NoPage, 0, 0)
    /\ UNCHANGED screenVars

PageLabelRenderPage(index, pixmapGiven, rendered) ==
    /\ label.kind = "PageLabel"
    /\ label' = PageLabelRender(label, index, pixmapGiven, rendered)
    /\ call' = Call("renderPage", index, 0, 0)
    /\ UNCHANGED screenVars

PreviewSlideRenderPage(pageNumber) ==
    /\ label.kind = "PreviewSlide"
    /\ label' = PreviewSlideRender(label)
    /\ call' = Call("renderPage", pageNumber, 0, 0)
    /\ UNCHANGED screenVars

PageLabelUpdateCacheBytes(bytes, index) ==
    /\ label.kind = "PageLabel"
    /\ label' = UpdateCacheBytes(label, bytes, index).l
    /\ call' = Call("updateCacheBytes", index, bytes,
                    UpdateCacheBytes(label, bytes, index).ret)
    /\ UNCHANGED screenVars

PageLabelUpdateCachePage(index, rendered) ==
    /\ label.kind = "PageLabel"
    /\ label' = UpdateCachePage(label, index, rendered).l
    /\ call' = Call("updateCachePage", index, rendered,
                    UpdateCachePage(label, index, rendered).ret)
    /\ UNCHANGED screenVars

PageLabelClearCachePage(index) ==
    /\ label.kind = "PageLabel"
    /\ label' = ClearCachePage(label, index).l
    /\ call' = Call("clearCachePage", index, 0, ClearCachePage(label, index).ret)
    /\ UNCHANGED screenVars

PageLabelClearCache ==
    /\ label.kind = "PageLabel"
    /\ label' = LabelClearCache(label)
    /\ call' = Call("clearCache", NoPage, 0, 0)
    /\ UNCHANGED screenVars

\* Mutant: the image is handed over and leaves the cache.
GetCachedBytesTake(l, index) ==
    IF Contains(l, index) THEN Returned(Remove(l, index), l.cache[index].bytes)
    ELSE Returned(l, 0)

\* PageLabel::getCachedBytes: the array of the cache, or a new empty one.
GetCachedBytes(l, index) ==
    IF Contains(l, index) THEN Returned(l, l.cache[index].bytes)
    ELSE Returned(l, 0)

\* PageLabel::getCache: the pixmap loaded from the array of the cache, or
\* an empty pixmap.
GetCache(l, index) ==
    IF Contains(l, index) THEN Returned(l, l.cache[index].bytes)
    ELSE Returned(l, 0)

\* CacheMap::renderPixmap, read as the lookup of the image store.
RenderPixmap(l, page) ==
    IF Contains(l, page) THEN Returned(l, l.cache[page].bytes)
    ELSE Returned(l, 0)

\* PreviewSlide::getPixmap: an empty pixmap if there is no cache map.
GetPixmap(l, page) ==
    IF ~l.caching THEN Returned(l, 0) ELSE RenderPixmap(l, page)

\* The lookup functions by the name recorded in call.op.
Lookup(l, op, index) ==
    IF op = "getCachedBytes" THEN GetCachedBytes(l, index)
    ELSE IF op = "getCache" THEN GetCache(l, index)
    ELSE GetPixmap(l, index)

PageLabelGetCachedBytes(index) ==
    /\ label.kind = "PageLabel"
    /\ label' = GetCachedBytes(label, index).l
    /\ call' = Call("getCachedBytes", index, 0, GetCachedBytes(label, index).ret)
    /\ UNCHANGED screenVars

PageLabelGetCache(index) ==
    /\ label.kind = "PageLabel"
    /\ label' = GetCache(label, index).l
    /\ call' = Call("getCache", index, 0, GetCache(label, index).ret)
    /\ UNCHANGED screenVars

PreviewSlideGetPixmap(page) ==
    /\ label.kind = "PreviewSlide"
    /\ label' = GetPixmap(label, page).l
    /\ call' = Call("getPixmap", page, 0, GetPixmap(label, page).ret)
    /\ UNCHANGED screenVars

\* A PageLabel starts with an empty cache.
NewPageLabel(useCache) ==
    [kind |-> "PageLabel", caching |-> useCache, cache |-> EmptyCache,
     size |-> 1, oldSize |-> 1, gen |-> 0]

\* The cache maps a PreviewSlide can have when it is observed: any pages,
\* stored by the cache threads at the size of the last rendering.
PreviewCaches ==
    UNION {[D -> [bytes : Rendered, gen : {0}]] : D \in SUBSET Indices}

ObservedPreviewSlide(hasCache, c) ==
    [kind |-> "PreviewSlide", caching |-> hasCache,
     cache |-> IF hasCache THEN c ELSE EmptyCache,
     size |-> 1, oldSize |-> 1, gen |-> 0]

InitL ==
    /\ ScreenInit(NumPages, BaseStores, -1, NumPages)
    /\ \/ \E useCache \in BOOLEAN : label = NewPageLabel(useCache)
       \/ \E hasCache \in BOOLEAN, c \in PreviewCaches :
              label = ObservedPreviewSlide(hasCache, c)
    /\ call = NoCall

NextL ==
    \/ \E sz \in LabelSizes : LabelResized(sz)
    \/ \E index \in Indices \cup {NoPage}, pixmapGiven \in BOOLEAN,
          rendered \in Rendered :
           PageLabelRenderPage(index, pixmapGiven, rendered)
    \/ \E pageNumber \in Indices : PreviewSlideRenderPage(pageNumber)
    \/ \E bytes \in Blobs, index \in Indices :
           PageLabelUpdateCacheBytes(bytes, index)
    \/ \E index \in Indices, rendered \in Rendered :
           PageLabelUpdateCachePage(index, rendered)
    \/ \E index \in Indices : PageLabelClearCachePage(index)
    \/ PageLabelClearCache
    \/ \E index \in Indices : PageLabelGetCachedBytes(index)
    \/ \E index \in Indices : PageLabelGetCache(index)
    \/ \E page \in Indices : PreviewSlideGetPixmap(page)

SpecL == InitL /\ [][NextL]_vars

(***************************************************************************)
(* C17  A cache is emptied when the size of its widget changes.  After     *)
(* renderPage has been called for a page on a label whose size differs     *)
(* from the size at the previous rendering, the cache of the label holds   *)
(* no image that was stored before the change of the size.                 *)
(***************************************************************************)
\* renderPage was called for a page while size() differed from oldSize.
RenderedAfterResize ==
    /\ call.op = "renderPage"
    /\ call.index # NoPage
    /\ call.before.size # call.before.oldSize

C17_ClearedOnSizeChange ==
    RenderedAfterResize =>
        /\ \A i \in DOMAIN label.cache : label.cache[i].gen = label.gen
        /\ \A i \in DOMAIN label.cache : i \notin DOMAIN call.before.cache
                                         \/ i = call.index
        /\ label.oldSize = label.size

\* The rendering after a change of the size found images in the cache.
C17_Witness ==
    /\ RenderedAfterResize
    /\ call.before.cache # EmptyCache

(***************************************************************************)
(* C19  Storing an image.  updateCache changes neither the images of the   *)
(* cache nor its size in bytes and returns 0 when the image is null or     *)
(* empty or when the cache already holds an image for the index;           *)
(* otherwise the image is added and its size is returned.                  *)
(***************************************************************************)
\* updateCache was called with an image or with a page to render.
UpdateCacheCalled == call.op \in {"updateCacheBytes", "updateCachePage"}

C19_InsertNoOpWhenPresent ==
    UpdateCacheCalled =>
        IF call.bytes = 0 \/ Contains(call.before, call.index)
        THEN /\ call.ret = 0
             /\ label.cache = call.before.cache
             /\ GetCacheSize(label) = GetCacheSize(call.before)
        ELSE /\ call.ret = call.bytes
             /\ label = Put(call.before, call.index, call.bytes)

(***************************************************************************)
(* C20  Deleting an image.  clearCachePage(index) removes exactly the      *)
(* image of index and returns its size, leaving every other image alone;   *)
(* when the cache holds no image for index it returns 0 and changes        *)
(* nothing.  So the size of the cache in bytes after the call is the size  *)
(* before minus the value returned, and a second clearCachePage(index)     *)
(* returns 0.                                                              *)
(***************************************************************************)
C20_EvictReturnsSize ==
    call.op = "clearCachePage" =>
        /\ IF Contains(call.before, call.index)
           THEN /\ call.ret = call.before.cache[call.index].bytes
                /\ label = Remove(call.before, call.index)
           ELSE /\ call.ret = 0
                /\ label = call.before
        /\ \A i \in DOMAIN call.before.cache \ {call.index} :
               Contains(label, i) /\ label.cache[i] = call.before.cache[i]
        /\ GetCacheSize(label) = GetCacheSize(call.before) - call.ret
        /\ ClearCachePage(label, call.index).ret = 0

\* An image was deleted from a cache that holds another one.
C20_Witness ==
    /\ call.op = "clearCachePage"
    /\ Contains(call.before, call.index)
    /\ label.cache # EmptyCache


(***************************************************************************)
(* C18  A new renderer invalidates nothing.  setRenderer called with a     *)
(* valid command leaves the pages of every cache map, the region           *)
(* (first_cached, last_cached, first_delete, last_delete), the current     *)
(* page, the budgets and cacheThreadsRunning unchanged.                    *)
(***************************************************************************)
\* The handler now taking a step is setRenderer with a valid command.
ValidSetRendererStep == ev'.op = "setRenderer" /\ ev'.outcome = "custom"

C18_SetRendererFrame ==
    [][ValidSetRendererStep =>
         UNCHANGED <<cache, first_cached, last_cached, first_delete,
                     last_delete, currentPageNumber, maxCacheSize,
                     maxCacheNumber, cacheThreadsRunning>>]_vars

\* The renderer was set while the cache maps held pages and jobs were running.
C18_Witness ==
    /\ ev.op = "setRenderer" /\ ev.outcome = "custom"
    /\ renderer = "program"
    /\ cache["pres"] # {}
    /\ cacheThreadsRunning > 0


(***************************************************************************)
(* C21  Lookup is a pure, idempotent read.  getCachedBytes, getCache and   *)
(* getPixmap store, remove and render nothing: the images of the cache,    *)
(* their number and their size in bytes are as before the call; and a      *)
(* second call right after the first returns the same image.               *)
(***************************************************************************)
LookupCalled == call.op \in {"getCachedBytes", "getCache", "getPixmap"}

QuiescePages == 4
QuiesceSizes == {-1, SmallBlob, SomeBytes, 2 * SomeBytes}

InitQ ==
    \E size \in QuiesceSizes, number \in 1 .. QuiescePages :
        InitWith(QuiescePages, BaseStores, size, number)

NextQ ==
    \/ \E pageNumber \in 0 .. QuiescePages - 1 :
           events = <<>> /\ ReceiveNewPageNumber(pageNumber)
    \/ UpdateCacheStep
    \/ \E s \in AllStores : CacheThreadFinished(s, TRUE)

FairnessQ ==
    /\ WF_vars(UpdateCacheStep)
    /\ \A s \in AllStores : WF_vars(CacheThreadFinished(s, TRUE))

SpecQ == InitQ /\ [][NextQ]_vars /\ FairnessQ

(***************************************************************************)
(* C22  The scheduler quiesces.  With the current page and the budgets     *)
(* fixed, no resize or reload, and every render job finishing, timer steps *)
(* and finished jobs lead to a state in which cacheTimer is stopped and no *)
(* thread is rendering, whatever the byte budget and the page budget.      *)
(***************************************************************************)
C22_SchedulerQuiesces == []<>SchedulerStopped

\* The scheduler stopped after caching with a page budget below the number
\* of pages and an unlimited byte budget.
C22_Witness ==
    /\ SchedulerStopped
    /\ ev.op = "step"
    /\ maxCacheNumber < numberOfPages /\ maxCacheSize < 0
    /\ cache["pres"] # {}


(***************************************************************************)
(* C23  Every step terminates.  The eviction loop of a timer step makes    *)
(* finitely many iterations, whatever the budgets and the pages held by    *)
(* the cache maps: it reaches a satisfied budget or returns.               *)
(***************************************************************************)
C23_StepTerminates == ev.op = "step" => ev.outcome # "hang"


(***************************************************************************)
(* C24  A negative page budget means unlimited.  After setCacheNumber with *)
(* a negative number maxCacheNumber equals numberOfPages; and while it     *)
(* does, no timer step deletes a page or refuses to cache one because of   *)
(* the number of cached pages: a step deletes pages only if cacheSize was  *)
(* above maxCacheSize, and a step that stops at the end of the document    *)
(* does so because first_cached reached first_delete or because of the     *)
(* bytes.                                                                  *)
(***************************************************************************)
\* The handler now taking a step is a timer step without a limit of pages.
UnlimitedPagesStep == ev'.op = "step" /\ maxCacheNumber = numberOfPages

\* The step stopped where it could have cached first_cached - 1.
RefusedBackwardFill ==
    /\ ev.op = "step" /\ ev.outcome = "stop"
    /\ last_cached + 1 = numberOfPages

C24_NegativeMeansUnlimited ==
    /\ []((ev.op = "setNumber" /\ ev.page < 0) =>
              maxCacheNumber = numberOfPages)
    /\ []((RefusedBackwardFill /\ maxCacheNumber = numberOfPages) =>
              ~(first_cached > first_delete /\ 2 * maxCacheSize > 3 * cacheSize))
    /\ [][(UnlimitedPagesStep /\ ev'.victims # {}) =>
              cacheSize > maxCacheSize]_vars

\* setCacheNumber was called with a negative number while pages were cached.
C24_Witness ==
    /\ ev.op = "setNumber" /\ ev.page < 0
    /\ maxCacheNumber = numberOfPages
    /\ cache["pres"] # {}


(***************************************************************************)
(* C25  The preconditions of a step.  If every cache map holds all pages,  *)
(* or last_cached > last_delete, or first_cached < first_delete, or        *)
(* first_cached > currentPageNumber, or last_cached < currentPageNumber-1, *)
(* a timer step stops the timer and leaves the cache maps, the four        *)
(* bounds of the region, cacheSize and cacheThreadsRunning unchanged: it   *)
(* deletes nothing and starts no thread.                                   *)
(***************************************************************************)
\* Every cache map is full, or the region is inconsistent.
StepPreconditionFails ==
    \/ \A s \in stores : Cardinality(cache[s]) = numberOfPages
    \/ last_cached > last_delete
    \/ first_cached < first_delete
    \/ first_cached > currentPageNumber
    \/ last_cached < currentPageNumber - 1

StepIsNoOp ==
    /\ ~timerActive'
    /\ ev'.freed = {} /\ ev'.started = {}
    /\ UNCHANGED <<cache, first_cached, last_cached, first_delete, last_delete,
                   cacheSize, cacheThreadsRunning, rendering>>

C25_PreconditionsMakeNoOp ==
    [][(ev'.op = "step" /\ StepPreconditionFails) => StepIsNoOp]_vars

\* A step found the region inconsistent while cache maps lacked pages.
C25_Witness ==
    /\ ev.op = "step" /\ ev.outcome = "inconsistent"
    /\ ~timerActive
    /\ \E s \in stores : Cardinality(cache[s]) < numberOfPages


(***************************************************************************)
(* C26  Stepping keeps the region consistent.  After a timer step that     *)
(* deleted a page or handed a page to cachePage (++last_cached or          *)
(* --first_cached), first_delete <= first_cached and last_cached <=        *)
(* last_delete hold, so the next step does not find the region             *)
(* inconsistent because of what this step did.                             *)
(***************************************************************************)
\* The last handler was a step that deleted a page or dispatched one.
StepActed == ev.op = "step" /\ (ev.freed # {} \/ ev.outcome = "cache")

C26_SteppingKeepsConsistency ==
    StepActed => first_delete <= first_cached /\ last_cached <= last_delete


(***************************************************************************)
(* C27  The eviction loop gives up when the region loses the current page. *)
(* If moving a delete pointer and clamping the region leaves first_cached  *)
(* > currentPageNumber or last_cached < currentPageNumber - 1, the step    *)
(* stops the timer and returns: it hands no page to cachePage.             *)
(***************************************************************************)
\* The region w does not contain page cur and is not the empty region at cur.
RegionLost(w, cur) == w.fc > cur \/ w.lc < cur - 1

\* The eviction loop of a step taken in the current state.
StepEviction ==
    EvictLoop(cache, cacheSize, Window, currentPageNumber, LoopFuel, {}, {})

\* A step is taken whose eviction loop deletes pages and loses the page.
EvictionLosesPage ==
    /\ ev'.op = "step"
    /\ ~StepPreconditionFails
    /\ StepEviction.victims # {}
    /\ RegionLost(StepEviction.w, currentPageNumber)

C27_EvictionAborts ==
    [][EvictionLosesPage => (ev'.outcome # "cache" /\ ~timerActive')]_vars


(***************************************************************************)
(* C28  Victim selection.  In every iteration of the eviction loop the     *)
(* page handed to freeCachePage is last_delete exactly when last_delete >  *)
(* 4 * currentPageNumber - 3 * first_delete, and first_delete otherwise.   *)
(* While first_delete <= currentPageNumber <= last_delete the victim is a  *)
(* page of the document, and it is the current page only when every other  *)
(* page between the delete pointers the loop started with has been removed *)
(* from every cache map.                                                   *)
(***************************************************************************)
\* The rule of the claim, for the victim v of an iteration with window w.
VictimByRule(w, cur, v) ==
    v = IF w.ld > 4 * cur - 3 * w.fd THEN w.ld ELSE w.fd

\* The current page lies between the delete pointers.
AroundCurrent(w, cur) == w.fd <= cur /\ cur <= w.ld

\* No cache map holds a page between the delete pointers of w0 but cur.
OthersEvicted(c, w0, cur) ==
    \A p \in (w0.fd .. w0.ld) \ {cur} : \A s \in AllStores : p \notin c[s]

\* What the claim says of an iteration with cache maps c and window w.
VictimProper(c, w, w0, cur, v) ==
    /\ VictimByRule(w, cur, v)
    /\ AroundCurrent(w, cur) =>
           /\ v >= 0 /\ v < numberOfPages
           /\ v = cur => OthersEvicted(c, w0, cur)

RECURSIVE VictimsProper(_, _, _, _, _, _)
\* The claim for every iteration of the loop that starts with window w0.
VictimsProper(c, cs, w, w0, cur, fuel) ==
    \/ ~OverBudget(c, cs)
    \/ fuel = 0
    \/ /\ VictimProper(c, w, w0, cur, VictimPage(w, cur))
       /\ \A f \in {FreeCachePage(c, cs, VictimPage(w, cur))} :
          \A w2 \in {AdvanceWindow(w, cur)} :
              \/ f.done
              \/ NeedReset(w2)
              \/ VictimsProper(f.c, f.cs, w2, w0, cur, fuel - 1)

C28_VictimSelection ==
    [][(ev'.op = "step" /\ ~StepPreconditionFails) =>
           VictimsProper(cache, cacheSize, Window, Window, currentPageNumber,
                         LoopFuel)]_vars

\* A step has deleted other pages and then the current page from the head.
C28_Witness ==
    /\ ev.op = "step"
    /\ currentPageNumber \in ev.victims
    /\ Cardinality(ev.victims) > 1
    /\ first_delete = currentPageNumber + 1
    /\ \E s \in stores : <<s, currentPageNumber>> \in ev.freed


(***************************************************************************)
(* C29  Eviction short-circuits across the cache maps in a fixed order.    *)
(* freeCachePage(p) removes p from drawSlideCache, then from the notes,    *)
(* then from the previews, then from the presentation, and stops before    *)
(* the next of these as soon as the budget test holds.  When it stops      *)
(* early, the eviction loop ends with the delete pointers and the region   *)
(* of that iteration, and p stays in the cache maps not yet visited.       *)
(***************************************************************************)
\* The cache maps in the order of freeCachePage.
FreeOrder == <<{"draw"}, {"notes"}, {"previewX", "preview"}, {"pres"}>>

\* Page p removed from the first k entries of FreeOrder.
ClearedUpTo(c, cs, p, k) ==
    FreeIn([c |-> c, cs |-> cs, freed |-> {}],
           UNION {FreeOrder[i] : i \in 1..k}, p)

\* The entries of FreeOrder after which the budget test holds.
SatisfiedAfter(c, cs, p) ==
    {k \in 1..3 : \E x \in {ClearedUpTo(c, cs, p, k)} : BudgetSatisfied(x.c, x.cs)}

\* The number of entries of FreeOrder that freeCachePage(p) visits.
Visited(c, cs, p) ==
    IF SatisfiedAfter(c, cs, p) = {} THEN 4
    ELSE CHOOSE k \in SatisfiedAfter(c, cs, p) :
             \A j \in SatisfiedAfter(c, cs, p) : k <= j

\* The result f of freeCachePage(p) is what the claim describes.
FreeInOrder(c, cs, p, f) ==
    \E x \in {ClearedUpTo(c, cs, p, Visited(c, cs, p))} :
        /\ f.c = x.c
        /\ f.cs = x.cs
        /\ f.freed = x.freed
        /\ f.done = (SatisfiedAfter(c, cs, p) # {})
        /\ \A i \in 1..4 : \A s \in FreeOrder[i] :
               i > Visited(c, cs, p) => f.c[s] = c[s]

RECURSIVE FreesProper(_, _, _, _, _, _)
\* The claim for every iteration of the loop that ends with the result r.
FreesProper(c, cs, w, cur, fuel, r) ==
    \/ ~OverBudget(c, cs)
    \/ fuel = 0
    \/ \A f \in {FreeCachePage(c, cs, VictimPage(w, cur))} :
       \A w2 \in {AdvanceWindow(w, cur)} :
           /\ FreeInOrder(c, cs, VictimPage(w, cur), f)
           /\ f.done => (r.w = w /\ r.c = f.c /\ r.status = "done")
           /\ \/ f.done
              \/ NeedReset(w2)
              \/ FreesProper(f.c, f.cs, w2, cur, fuel - 1, r)

FillPages == 5
FillNumbers == {FillPages - 2, FillPages, FillPages + 1}
FillSizes == {-1, 2 * SomeBytes}

InitF ==
    \E size \in FillSizes, number \in FillNumbers :
        InitWith(FillPages, BaseStores, size, number)

NextF ==
    \/ \E pageNumber \in 0 .. FillPages - 1 :
           events = <<>> /\ ReceiveNewPageNumber(pageNumber)
    \/ UpdateCacheStep
    \/ \E s \in AllStores : CacheThreadFinished(s, TRUE)

SpecF == InitF /\ [][NextF]_vars

(***************************************************************************)
(* C30  Filling backwards needs slack.  When last_cached + 1 equals the    *)
(* number of pages after the eviction loop, the step hands page            *)
(* first_cached - 1 to cachePage, and decrements first_cached, exactly if  *)
(* first_cached > first_delete, cacheSize is below 2/3 of maxCacheSize,    *)
(* and the presentation cache map holds fewer than 2/3 of maxCacheNumber   *)
(* pages or the page budget is unlimited (maxCacheNumber >= numberOfPages);*)
(* otherwise the step stops the timer and leaves the region, the delete    *)
(* pointers and the cache maps as the eviction loop left them.             *)
(***************************************************************************)
\* The slack of the claim, after the eviction loop e.
SlackForBackwardFill(e) ==
    /\ e.w.fc > e.w.fd
    /\ 3 * e.cs < 2 * maxCacheSize
    /\ \/ maxCacheNumber >= numberOfPages
       \/ 3 * Length(e.c, "pres") < 2 * maxCacheNumber

\* The step handed page first_cached - 1 to cachePage.
FilledBackwards(e) ==
    /\ ev'.outcome = "cache"
    /\ ev'.page = e.w.fc - 1
    /\ first_cached' = e.w.fc - 1
    /\ last_cached' = e.w.lc

\* The step stopped the timer and changed nothing after the eviction loop.
StoppedAfterEviction(e) ==
    /\ ev'.outcome = "stop"
    /\ ~timerActive'
    /\ ev'.started = {}
    /\ first_cached' = e.w.fc /\ last_cached' = e.w.lc
    /\ first_delete' = e.w.fd /\ last_delete' = e.w.ld
    /\ cache' = e.c

\* A step is taken whose eviction loop e ends with the region at the end of
\* the document.
StepAtEnd(e) ==
    /\ ev'.op = "step"
    /\ ~StepPreconditionFails
    /\ e.status = "done"
    /\ e.w.lc + 1 = numberOfPages

C30_BackwardFillNeedsSlack ==
    [][\A e \in {StepEviction} :
           StepAtEnd(e) =>
               IF SlackForBackwardFill(e) THEN FilledBackwards(e)
               ELSE StoppedAfterEviction(e)]_vars


(***************************************************************************)
(* C31  Forward fill and the guard against thrashing.  When last_cached +  *)
(* 1 is below the number of pages after the eviction loop, the step hands  *)
(* page last_cached + 1 to cachePage, and increments last_cached, unless   *)
(* 3 * cacheSize > 2 * maxCacheSize, 3 * (last_cached - currentPageNumber) *)
(* * cacheSize > 2 * length * maxCacheSize and (maxCacheSize - cacheSize)  *)
(* * length < 2 * cacheSize all hold, length being the number of pages of  *)
(* the presentation cache map; if all three hold it stops the timer and    *)
(* hands no page to cachePage.                                             *)
(***************************************************************************)
\* The three conditions of the claim, after the eviction loop e.
LikelyThrash(e, cur) ==
    /\ 3 * e.cs > 2 * maxCacheSize
    /\ 3 * (e.w.lc - cur) * e.cs > 2 * Length(e.c, "pres") * maxCacheSize
    /\ (maxCacheSize - e.cs) * Length(e.c, "pres") < 2 * e.cs

\* The step handed page last_cached + 1 to cachePage.
FilledForwards(e) ==
    /\ ev'.outcome = "cache"
    /\ ev'.page = e.w.lc + 1
    /\ last_cached' = e.w.lc + 1
    /\ first_cached' = e.w.fc

\* A step is taken whose eviction loop e ends with the budget satisfied and
\* the region before the end of the document.
StepBeforeEnd(e) ==
    /\ ev'.op = "step"
    /\ ~StepPreconditionFails
    /\ e.status = "done"
    /\ ~OverBudget(e.c, e.cs)
    /\ e.w.lc + 1 < numberOfPages

C31_ForwardFillAndGuard ==
    [][\A e \in {StepEviction} :
           StepBeforeEnd(e) =>
               IF LikelyThrash(e, currentPageNumber)
               THEN StoppedAfterEviction(e)
               ELSE FilledForwards(e)]_vars

\* The guard stopped a step.
C31_Witness ==
    /\ ev.op = "step"
    /\ ev.outcome = "stop"
    /\ last_cached + 1 < numberOfPages
    /\ ~Inconsistent(Window, currentPageNumber)
    /\ maxCacheSize > 0


(***************************************************************************)
(* C32  No page is rendered and deleted at once.  With the current page    *)
(* and the budgets unchanged, a page that a step handed to cachePage and   *)
(* that a cache thread then stored is not deleted by the eviction loop of  *)
(* the next step.  (Where only steps and finished jobs occur, the timer is *)
(* off while a thread renders, so the jobs that finish between two steps   *)
(* are those of the first of the two.)                                     *)
(***************************************************************************)
\* The last job of a dispatch stored its page and the timer fires.
StepAfterStoredPage ==
    /\ ev.op = "finished"
    /\ ev.ok
    /\ ev.page \in cache[ev.store]
    /\ ev'.op = "step"

C32_NoRenderThenEvict ==
    [][StepAfterStoredPage =>
           \A s \in AllStores : <<s, ev.page>> \notin ev'.freed]_vars


(***************************************************************************)
(* C33  Finished render jobs.  Each finished job decrements                *)
(* cacheThreadsRunning by one, and the timer is started exactly by the job *)
(* that brings the counter to zero.  Hence, however steps, navigation and  *)
(* finished jobs interleave, the timer is active once the last running     *)
(* cache thread has finished.                                              *)
(***************************************************************************)
\* A render job finishes.
JobFinishes == ev'.op = "finished"

\* The counter and the timer as cacheThreadFinished leaves them.
CounterAfterJob ==
    /\ cacheThreadsRunning' = cacheThreadsRunning - 1
    /\ cacheThreadsRunning' = 0 => timerActive'
    /\ cacheThreadsRunning' # 0 => timerActive' = timerActive

\* The job that finishes is the last one running.
LastJobFinishes == JobFinishes /\ Cardinality(Busy) = 1

C33_LastJobArmsTimer ==
    [][/\ JobFinishes => CounterAfterJob
       /\ LastJobFinishes => timerActive']_vars


(***************************************************************************)
(* C34  An empty dispatch does not stall.  If a step hands a page to       *)
(* cachePage and no cache thread is started for it (every cache map holds  *)
(* the page or its thread is busy), the timer is active when the step      *)
(* returns, so the next step needs no finished job.                        *)
(***************************************************************************)
\* The last handler was a step whose cachePage started no thread.
EmptyDispatch ==
    /\ ev.op = "step"
    /\ ev.outcome = "cache"
    /\ ev.started = {}

C34_EmptyDispatchRearms ==
    EmptyDispatch => (timerActive /\ ~hung /\ cacheThreadsRunning = 0)

\* An empty dispatch for a page that every cache map holds.
C34_Witness ==
    /\ EmptyDispatch
    /\ \A s \in stores : ev.page \in cache[s]


(***************************************************************************)
(* C35  The cached region is contiguous and fully populated.  Whenever no  *)
(* cache thread is rendering, every cache map holds every page from        *)
(* first_cached to last_cached.                                            *)
(***************************************************************************)
C35_RegionPopulated ==
    Busy = {} =>
        \A p \in first_cached .. last_cached : \A s \in stores : p \in cache[s]


(***************************************************************************)
(* C36  Pages outside the delete pointers are gone.  Whenever no cache     *)
(* thread is rendering, no cache map holds a page below first_delete or    *)
(* above last_delete: first_delete is the first page not deleted yet and   *)
(* last_delete the last.                                                   *)
(***************************************************************************)
C36_NothingOutsideDeletePointers ==
    Busy = {} =>
        \A s \in stores : \A p \in cache[s] :
            first_delete <= p /\ p <= last_delete


(***************************************************************************)
(* C37  The counter of running threads is exact.  In every reachable state *)
(* cacheThreadsRunning is not negative and equals the number of cache      *)
(* threads that were started and have not finished.                        *)
(***************************************************************************)
C37_CounterExact ==
    /\ cacheThreadsRunning >= 0
    /\ cacheThreadsRunning = Cardinality(Busy)


(***************************************************************************)
(* C38  Delete pointers and pages stay in range.  In every reachable state *)
(* 0 <= first_delete and last_delete <= numberOfPages - 1, and every page  *)
(* a step hands to freeCachePage or to cachePage is a page of the          *)
(* document.                                                               *)
(***************************************************************************)
\* The pages of the document.
PageIndices == 0 .. numberOfPages - 1

DeletePointersInRange == 0 <= first_delete /\ last_delete <= numberOfPages - 1

\* The pages the last step handed to freeCachePage.
FreedPagesInRange == ev.op = "step" => ev.victims \subseteq PageIndices

\* The page the last step handed to cachePage.
CachedPageInRange ==
    (ev.op = "step" /\ ev.outcome = "cache") => ev.page \in PageIndices

C38_PointersAndPagesInRange ==
    /\ DeletePointersInRange
    /\ FreedPagesInRange
    /\ CachedPageInRange


(***************************************************************************)
(* Caching without limits: a document of FillPages pages, an unlimited     *)
(* byte budget, a page budget equal to or above the number of pages.  The  *)
(* user jumps to a page before anything is cached, or stays on page 0;     *)
(* then only timer steps and render jobs occur, and every job finishes.    *)
(* The timer fires while it is active and every job ends (weak fairness).  *)
(***************************************************************************)
UnlimitedNumbers == {FillPages, FillPages + 1}

InitU ==
    \E S \in ScenarioStores, number \in UnlimitedNumbers :
        InitWith(FillPages, S, -1, number)

JumpU(pageNumber) ==
    /\ events = <<>>
    /\ ev.op = "init"
    /\ ReceiveNewPageNumber(pageNumber)

NextU ==
    \/ \E pageNumber \in 0 .. FillPages - 1 : JumpU(pageNumber)
    \/ UpdateCacheStep
    \/ \E s \in AllStores : CacheThreadFinished(s, TRUE)

FairnessU ==
    /\ WF_vars(UpdateCacheStep)
    /\ \A s \in AllStores : WF_vars(CacheThreadFinished(s, TRUE))

SpecU == InitU /\ [][NextU]_vars /\ FairnessU

(***************************************************************************)
(* C39  Unlimited budgets lead to a full cache.  With an unlimited byte    *)
(* budget and maxCacheNumber >= numberOfPages, every job rendering its     *)
(* page and the user staying on the page, the scheduler stops only when    *)
(* every cache map holds every page of the document, and no step deletes a *)
(* page on the way.                                                        *)
(***************************************************************************)
\* No limit applies.
Unlimited == maxCacheSize < 0 /\ maxCacheNumber >= numberOfPages

\* Every cache map holds every page.
EverythingCached == \A s \in stores : cache[s] = PageIndices

\* The last step handed no page to freeCachePage.
NothingEvicted == ev.op = "step" => (ev.victims = {} /\ ev.freed = {})

C39_UnlimitedFillsCache ==
    Unlimited => /\ SchedulerStopped => EverythingCached
                 /\ NothingEvicted

\* The same for a page budget equal to the number of pages.
FillsCacheAtEquality == maxCacheNumber = numberOfPages => C39_UnlimitedFillsCache

\* With that budget the scheduler does stop with a full cache.
StopsFullAtEquality ==
    maxCacheNumber = numberOfPages ~> (SchedulerStopped /\ EverythingCached)


(***************************************************************************)
(* C40  currentPageNumber is always a page of the document.  renderPage    *)
(* gives it the requested page number, and numberOfPages - 1 for every     *)
(* request that is negative or not below numberOfPages; and when           *)
(* updateCache resets the region, the empty region it starts lies at a     *)
(* page of the document, the current page.                                 *)
(***************************************************************************)
\* Page numbers a caller can request, inside and outside the document.
Requests == -2 .. numberOfPages + 1

RequestsMapped ==
    \A pageNumber \in Requests :
        /\ RenderPage(pageNumber) \in PageIndices
        /\ pageNumber \in PageIndices => RenderPage(pageNumber) = pageNumber
        /\ pageNumber \notin PageIndices =>
               RenderPage(pageNumber) = numberOfPages - 1

\* The last handler was a navigation whose updateCache reset the region.
RegionWasReset == ev.op \in {"nav", "nextslide"} /\ ev.outcome = "reset"

====
